---- MODULE Spec2Model ----
(***************************************************************************)
(* make-sysroot: the filtered recursive copy (CopyBuilder::run, lib.rs),   *)
(* the absolute-to-relative symlink rewriter (make_relative, main.rs) and  *)
(* the orchestration of main (main.rs), over an explicit file system.      *)
(*                                                                         *)
(* A path is the sequence of its components, each a one-character name, so *)
(* the root "/" is << >> and "/s/b/l" is <<"s","b","l">>.  The text of a   *)
(* path (what to_string_lossy yields) is the sequence of its characters,   *)
(* "/" included, and a filter is a sequence of characters; `contains` is   *)
(* the substring test on those.                                            *)
(***************************************************************************)
EXTENDS Integers, Sequences, FiniteSets, TLC

VARIABLES
    fs,           \* the file system: path -> node, for every existing path
    pc,           \* position of the program
    copier,       \* the CopyBuilder value (lib.rs 12-27)
    abs_source,   \* run: canonicalized source (lib.rs 112)
    abs_dest,     \* run: canonicalized destination (lib.rs 113)
    walk,         \* WalkDir iterator: stack of the unread entries of each open directory
    log,          \* what the current walk did with each entry it was handed
    fs0,          \* the file system when the current operation started
    runs,         \* number of completed calls of run
    snap,         \* the file system when the first run returned
    args,         \* main: the parsed command line (main.rs 213-231)
    config,       \* main: the parsed configuration (main.rs 233-238)
    sysroot_dir,  \* make_relative: its argument (main.rs 113)
    now           \* the system clock: the modification time given to what is written

vars == <<fs, pc, copier, abs_source, abs_dest, walk, log, fs0, runs, snap,
          args, config, sysroot_dir, now>>

(***************************************************************************)
(* Bounds of the model.                                                    *)
(***************************************************************************)
\* calls of run made in succession on one tree
MaxRuns == 2
\* symbolic links one path resolution may follow
MaxFollow == 2
\* components of a symlink target handed to make_relative
MaxTarget == 2

(***************************************************************************)
(* Paths and their text.                                                   *)
(***************************************************************************)
Root == << >>

Parent(p) == IF p = << >> THEN << >> ELSE SubSeq(p, 1, Len(p) - 1)

IsPrefix(p, q) == Len(p) <= Len(q) /\ SubSeq(q, 1, Len(p)) = p

\* Path::strip_prefix(base): the components after base
StripPrefix(p, base) == SubSeq(p, Len(base) + 1, Len(p))

RECURSIVE Chars(_)
Chars(comps) ==
    IF comps = << >> THEN << >>
    ELSE IF Len(comps) = 1 THEN <<Head(comps)>>
    ELSE <<Head(comps), "/">> \o Chars(Tail(comps))

\* to_string_lossy of an absolute path
Text(p) == <<"/">> \o Chars(p)

\* the literal text of a symlink target
TargetText(t) == IF t.abs THEN Text(t.comps) ELSE Chars(t.comps)

\* str::contains
Contains(text, f) ==
    \E i \in 1..(Len(text) - Len(f) + 1) : SubSeq(text, i, i + Len(f) - 1) = f

(***************************************************************************)
(* File system nodes.                                                      *)
(***************************************************************************)
NoTarget == [abs |-> FALSE, comps |-> << >>]

Dir(t) == [kind |-> "dir", data |-> << >>, mtime |-> t, target |-> NoTarget]
File(d, t) == [kind |-> "file", data |-> d, mtime |-> t, target |-> NoTarget]
Symlink(tg, t) == [kind |-> "symlink", data |-> << >>, mtime |-> t, target |-> tg]
Fifo(t) == [kind |-> "other", data |-> << >>, mtime |-> t, target |-> NoTarget]

Exists(f, p) == p \in DOMAIN f

\* symlink_metadata().len(): bytes of a file, length of a symlink's target text
Size(n) ==
    IF n.kind = "file" THEN Len(n.data)
    ELSE IF n.kind = "symlink" THEN Len(TargetText(n.target))
    ELSE 0

Put(f, p, n) == [q \in DOMAIN f \cup {p} |-> IF q = p THEN n ELSE f[q]]

Remove(f, p) == [q \in DOMAIN f \ {p} |-> f[q]]

RemoveTree(f, p) == [q \in {r \in DOMAIN f : ~IsPrefix(p, r)} |-> f[q]]

Children(f, p) == {q \in DOMAIN f : Len(q) = Len(p) + 1 /\ IsPrefix(p, q)}

\* path resolution: follows symbolic links, ".." is the parent
RECURSIVE Resolve(_, _, _, _)
Resolve(f, cur, rest, fuel) ==
    IF rest = << >> THEN [ok |-> TRUE, path |-> cur]
    ELSE LET c == Head(rest)
             nxt == Append(cur, c)
         IN  IF c = ".." THEN Resolve(f, Parent(cur), Tail(rest), fuel)
             ELSE IF ~Exists(f, nxt) THEN [ok |-> FALSE, path |-> << >>]
             ELSE IF f[nxt].kind = "symlink"
                  THEN IF fuel = 0 THEN [ok |-> FALSE, path |-> << >>]
                       ELSE Resolve(f, IF f[nxt].target.abs THEN Root ELSE cur,
                                    f[nxt].target.comps \o Tail(rest), fuel - 1)
             ELSE IF Tail(rest) # << >> /\ f[nxt].kind # "dir"
                  THEN [ok |-> FALSE, path |-> << >>]
             ELSE Resolve(f, nxt, Tail(rest), fuel)

\* Path::canonicalize
Canonicalize(f, p) == Resolve(f, Root, p, MaxFollow)

\* Path::is_dir / Path::is_file / Path::exists: they follow symbolic links
IsDir(f, p) ==
    LET r == Canonicalize(f, p) IN r.ok /\ f[r.path].kind = "dir"

IsFile(f, p) ==
    LET r == Canonicalize(f, p) IN r.ok /\ f[r.path].kind = "file"

PathExists(f, p) == Canonicalize(f, p).ok

\* the missing ancestors of p, p included
MissingDirs(f, p) == {SubSeq(p, 1, i) : i \in 0..Len(p)} \ DOMAIN f

\* fs::create_dir_all succeeds when every existing ancestor is a directory
CanCreateDirAll(f, p) ==
    \A i \in 0..Len(p) :
        Exists(f, SubSeq(p, 1, i)) => IsDir(f, SubSeq(p, 1, i))

CreateDirAll(f, p, t) ==
    [q \in DOMAIN f \cup MissingDirs(f, p) |-> IF q \in DOMAIN f THEN f[q] ELSE Dir(t)]

(***************************************************************************)
(* lib.rs: CopyBuilder.                                                    *)
(***************************************************************************)
\* CopyBuilder::new and the chained setters
CopyBuilder(src, dst, all, newer, differs, excl, incl) ==
    [source |-> src, destination |-> dst, overwrite_all |-> all,
     overwrite_if_newer |-> newer, overwrite_if_size_differs |-> differs,
     exclude_filters |-> excl, include_filters |-> incl]

\* both symlink_metadata calls succeed and a's modification time is later
is_file_newer(f, a, b) ==
    Exists(f, a) /\ Exists(f, b) /\ f[a].mtime > f[b].mtime

is_filesize_different(f, a, b) ==
    Exists(f, a) /\ Exists(f, b) /\ Size(f[a]) # Size(f[b])

\* where fs::copy writes: dest itself, or the file a symlink at dest names
WritePlace(f, to) ==
    IF Exists(f, to) /\ f[to].kind = "symlink"
    THEN LET tg == f[to].target
             full == (IF tg.abs THEN Root ELSE Parent(to)) \o tg.comps
             r == Canonicalize(f, to)
             d == Canonicalize(f, Parent(full))
         IN  IF r.ok THEN r
             ELSE IF full # << >> /\ full[Len(full)] # ".." /\ d.ok
                  THEN [ok |-> TRUE, path |-> Append(d.path, full[Len(full)])]
             ELSE [ok |-> FALSE, path |-> << >>]
    ELSE [ok |-> IsDir(f, Parent(to)), path |-> to]

\* std::fs::copy(from, to): the bytes of from, written now
CopyFile(f, from, to, t) ==
    LET w == WritePlace(f, to)
    IN  IF ~w.ok \/ (Exists(f, w.path) /\ f[w.path].kind # "file")
        THEN [ok |-> FALSE, fs |-> f]
        ELSE [ok |-> TRUE, fs |-> Put(f, w.path, File(f[from].data, t))]

\* std::os::unix::fs::symlink(target, link): fails when link exists
MakeSymlink(f, tg, link, t) ==
    IF Exists(f, link) \/ ~IsDir(f, Parent(link))
    THEN [ok |-> FALSE, fs |-> f]
    ELSE [ok |-> TRUE, fs |-> Put(f, link, Symlink(tg, t))]

\* lines 150-157: no include filter, or one that the path text contains
Included(c, e) ==
    c.include_filters = << >>
    \/ \E i \in 1..Len(c.include_filters) : Contains(Text(e), c.include_filters[i])

\* mutant: an include filter that matches overrides the exclude filters
Excluded_UnlessIncluded(c, e) ==
    /\ \E i \in 1..Len(c.exclude_filters) : Contains(Text(e), c.exclude_filters[i])
    /\ ~(c.include_filters # << >> /\ Included(c, e))

\* lines 142-148: the path text contains one of the exclude filters
Excluded(c, e) == \E i \in 1..Len(c.exclude_filters) : Contains(Text(e), c.exclude_filters[i])

EarlyOut(c, f, dest_entry) ==
    ~c.overwrite_all /\ Exists(f, dest_entry)
    /\ ~c.overwrite_if_newer /\ ~c.overwrite_if_size_differs

NotNewer(c, f, e, dest_entry) ==
    Exists(f, dest_entry) /\ c.overwrite_if_newer /\ ~is_file_newer(f, e, dest_entry)

SameSize(c, f, e, dest_entry) ==
    Exists(f, dest_entry) /\ c.overwrite_if_size_differs
    /\ ~is_filesize_different(f, e, dest_entry)

\* the copy itself, by file type
Materialize(f, e, dest_entry, t) ==
    IF f[e].kind = "file"
    THEN LET r == CopyFile(f, e, dest_entry, t)
         IN  [ok |-> r.ok, fs |-> r.fs, out |-> IF r.ok THEN "cp" ELSE "cp_err"]
    ELSE IF f[e].kind = "symlink"
    THEN LET r == MakeSymlink(f, f[e].target, dest_entry, t)
         IN  [ok |-> r.ok, fs |-> r.fs, out |-> IF r.ok THEN "cp_lnk" ELSE "cp_lnk_err"]
    ELSE [ok |-> TRUE, fs |-> f, out |-> "unhandled"]

\* the directory branch of the loop body
MakeDir(f, e, dest_entry, t) ==
    IF IsDir(f, e) /\ ~IsDir(f, dest_entry)
    THEN IF CanCreateDirAll(f, dest_entry)
         THEN [ok |-> TRUE, fs |-> CreateDirAll(f, dest_entry, t), out |-> "mkdir"]
         ELSE [ok |-> FALSE, fs |-> f, out |-> "mkdir_err"]
    ELSE [ok |-> TRUE, fs |-> f, out |-> "nop"]

\* mutant: the filters are applied to directories as well
Body_Filtered(c, f, src, dst, e, t) ==
    LET dest_entry == dst \o StripPrefix(e, src)
    IN  IF Excluded(c, e) \/ ~Included(c, e)
        THEN [ok |-> TRUE, fs |-> f, out |-> "excluded"]
        ELSE IF Exists(f, e) /\ f[e].kind # "dir"
        THEN IF EarlyOut(c, f, dest_entry) THEN [ok |-> TRUE, fs |-> f, out |-> "early"]
             ELSE IF NotNewer(c, f, e, dest_entry)
             THEN [ok |-> TRUE, fs |-> f, out |-> "not_newer"]
             ELSE IF SameSize(c, f, e, dest_entry)
             THEN [ok |-> TRUE, fs |-> f, out |-> "same_size"]
             ELSE Materialize(f, e, dest_entry, t)
        ELSE MakeDir(f, e, dest_entry, t)

\* one iteration of the 'files loop on the entry e
Body(c, f, src, dst, e, t) ==
    LET dest_entry == dst \o StripPrefix(e, src)
        skip(o) == [ok |-> TRUE, fs |-> f, out |-> o]
    IN  IF Exists(f, e) /\ f[e].kind # "dir"
        THEN IF EarlyOut(c, f, dest_entry) THEN skip("early")
             ELSE IF Excluded(c, e) THEN skip("excluded")
             ELSE IF ~Included(c, e) THEN skip("not_included")
             ELSE IF NotNewer(c, f, e, dest_entry) THEN skip("not_newer")
             ELSE IF SameSize(c, f, e, dest_entry) THEN skip("same_size")
             ELSE Materialize(f, e, dest_entry, t)
        ELSE MakeDir(f, e, dest_entry, t)

\* mutant: no filter_entry, every entry is handed out
Admitted_Always(e, dest) == TRUE

\* WalkDir's filter_entry predicate
Admitted(e, dest) == e # dest

\* the stack without the directories that have nothing left to yield
RECURSIVE Unwind(_)
Unwind(w) == IF w # << >> /\ Head(w) = {} THEN Unwind(Tail(w)) ELSE w

\* the iterator after yielding e from its innermost open directory:
\* a yielded directory is opened (read as it is then) when descend holds
Advance(w, f, e, descend) ==
    LET rest == <<Head(w) \ {e}>> \o Tail(w)
    IN  Unwind(IF descend /\ f[e].kind = "dir" THEN <<Children(f, e)>> \o rest ELSE rest)

NoLog == [p \in {} |-> ""]

\* run, up to the loop: create the destination, canonicalize both ends
RunStart ==
    /\ Head(pc) = "run"
    /\ LET f1 == IF ~IsDir(fs, copier.destination)
                 THEN IF CanCreateDirAll(fs, copier.destination)
                      THEN [ok |-> TRUE, fs |-> CreateDirAll(fs, copier.destination, now)]
                      ELSE [ok |-> FALSE, fs |-> fs]
                 ELSE [ok |-> TRUE, fs |-> fs]
           s == Canonicalize(f1.fs, copier.source)
           d == Canonicalize(f1.fs, copier.destination)
       IN  /\ fs' = f1.fs
           /\ fs0' = fs
           /\ log' = NoLog
           /\ IF f1.ok /\ s.ok /\ d.ok
              THEN /\ abs_source' = s.path
                   /\ abs_dest' = d.path
                   /\ walk' = <<{s.path}>>
                   /\ pc' = <<"run_walk">> \o Tail(pc)
              ELSE /\ UNCHANGED <<abs_source, abs_dest, walk>>
                   /\ pc' = <<"failed">>
    /\ UNCHANGED <<copier, runs, snap, args, config, sysroot_dir, now>>

\* one entry handed out by the iterator and the loop body on it
RunStep ==
    /\ Head(pc) = "run_walk"
    /\ walk # << >>
    /\ \E e \in Head(walk) :
          IF ~Admitted(e, abs_dest)
          THEN /\ walk' = Advance(walk, fs, e, FALSE)
               /\ log' = Put(log, e, "filtered")
               /\ UNCHANGED <<fs, pc>>
          ELSE LET r == Body(copier, fs, abs_source, abs_dest, e, now)
               IN  /\ fs' = r.fs
                   /\ log' = Put(log, e, r.out)
                   /\ IF r.ok
                      THEN /\ walk' = Advance(walk, r.fs, e, TRUE)
                           /\ pc' = pc
                      ELSE /\ walk' = walk
                           /\ pc' = <<"failed">>
    /\ UNCHANGED <<copier, abs_source, abs_dest, fs0, runs, snap, args, config,
                   sysroot_dir, now>>

\* the iterator is exhausted: Ok(())
RunReturn ==
    /\ Head(pc) = "run_walk"
    /\ walk = << >>
    /\ pc' = Tail(pc)
    /\ runs' = runs + 1
    /\ snap' = IF runs = 0 THEN fs ELSE snap
    /\ UNCHANGED <<fs, copier, abs_source, abs_dest, walk, log, fs0, args, config,
                   sysroot_dir, now>>

(***************************************************************************)
(* main.rs: make_relative.                                                 *)
(***************************************************************************)
NoPath == [some |-> FALSE, comps |-> << >>]
SomePath(comps) == [some |-> TRUE, comps |-> comps]

\* Path::parent: None for the root, else the path without its last component
PathParent(p) == IF p = << >> THEN NoPath ELSE SomePath(SubSeq(p, 1, Len(p) - 1))

\* Path::file_name: None for the root and for a path ending in ".."
FileName(p) ==
    IF p = << >> \/ p[Len(p)] = ".." THEN NoPath ELSE SomePath(<<p[Len(p)]>>)

Ups(b) == [i \in 1..Len(b) |-> ".."]

\* pathdiff::diff_paths(path, base) on two absolute paths: the loop over both
\* component iterators, comps being what has been pushed so far
RECURSIVE DiffLoop(_, _, _)
DiffLoop(a, b, comps) ==
    IF a = << >> /\ b = << >> THEN SomePath(comps)
    ELSE IF b = << >> THEN SomePath(comps \o a)
    ELSE IF a = << >> THEN DiffLoop(a, Tail(b), Append(comps, ".."))
    ELSE IF comps = << >> /\ Head(a) = Head(b) THEN DiffLoop(Tail(a), Tail(b), comps)
    ELSE IF Head(b) = ".." THEN NoPath
    ELSE SomePath(comps \o Ups(b) \o a)

diff_paths(path, base) == DiffLoop(path, base, << >>)

\* mutant: the difference is taken from the link itself, not its directory
RelativeTarget_FromEntry(root, entry, tcomps) ==
    LET real_path == root \o tcomps
        pp == PathParent(real_path)
        fname == FileName(real_path)
    IN  IF ~pp.some THEN [res |-> "panic", comps |-> << >>]
        ELSE LET rel == diff_paths(pp.comps, entry)
             IN  IF ~rel.some THEN [res |-> "err", comps |-> << >>]
                 ELSE IF ~fname.some THEN [res |-> "panic", comps |-> << >>]
                 ELSE [res |-> "ok", comps |-> rel.comps \o fname.comps]

\* lines 122-131: the relative target for the link `entry` whose absolute
\* target has the components tcomps; "panic" where an unwrap meets None
RelativeTarget(root, entry, tcomps) ==
    LET real_path == root \o tcomps
        pp == PathParent(real_path)
        ep == PathParent(entry)
        fname == FileName(real_path)
    IN  IF ~pp.some \/ ~ep.some THEN [res |-> "panic", comps |-> << >>]
        ELSE LET rel == diff_paths(pp.comps, ep.comps)
             IN  IF ~rel.some THEN [res |-> "err", comps |-> << >>]
                 ELSE IF ~fname.some THEN [res |-> "panic", comps |-> << >>]
                 ELSE [res |-> "ok", comps |-> rel.comps \o fname.comps]

\* the loop body of make_relative on one entry
RelBody(f, root, e, t) ==
    IF f[e].kind = "symlink" /\ f[e].target.abs
    THEN LET r == RelativeTarget(root, e, f[e].target.comps)
         IN  IF r.res = "ok"
             THEN [res |-> "ok", out |-> "rewritten",
                   fs |-> Put(Remove(f, e), e, Symlink([abs |-> FALSE, comps |-> r.comps], t))]
             ELSE [res |-> r.res, out |-> r.res, fs |-> f]
    ELSE [res |-> "ok", out |-> "untouched", fs |-> f]

\* WalkDir::new(sysroot_dir)
RelStart ==
    /\ Head(pc) = "make_relative"
    /\ IF Exists(fs, sysroot_dir)
       THEN /\ walk' = <<{sysroot_dir}>>
            /\ pc' = <<"rel_walk">> \o Tail(pc)
       ELSE /\ walk' = walk
            /\ pc' = <<"failed">>
    /\ log' = NoLog
    /\ fs0' = fs
    /\ UNCHANGED <<fs, copier, abs_source, abs_dest, runs, snap, args, config,
                   sysroot_dir, now>>

\* one entry of the walk.  A rewritten link is a new entry of a directory
\* that is being read, which readdir may or may not hand out again.
RelStep ==
    /\ Head(pc) = "rel_walk"
    /\ walk # << >>
    /\ \E e \in Head(walk) :
          LET r == RelBody(fs, sysroot_dir, e, now)
          IN  /\ fs' = r.fs
              /\ log' = IF e \in DOMAIN log THEN log ELSE Put(log, e, r.out)
              /\ IF r.res = "ok"
                 THEN /\ pc' = pc
                      /\ \/ walk' = Advance(walk, r.fs, e, TRUE)
                         \/ /\ r.out = "rewritten"
                            /\ walk' = walk
                 ELSE /\ walk' = walk
                      /\ pc' = IF r.res = "panic" THEN <<"panic">> ELSE <<"failed">>
    /\ UNCHANGED <<copier, abs_source, abs_dest, fs0, runs, snap, args, config,
                   sysroot_dir, now>>

\* Ok(())
RelReturn ==
    /\ Head(pc) = "rel_walk"
    /\ walk = << >>
    /\ pc' = Tail(pc)
    /\ UNCHANGED <<fs, copier, abs_source, abs_dest, walk, log, fs0, runs, snap,
                   args, config, sysroot_dir, now>>

(***************************************************************************)
(* main.rs: main, check_dst, copy, create_explicit_symlinks.               *)
(* A path of the configuration is [abs, comps], as a symlink target is.    *)
(***************************************************************************)
\* mutant: the destination is compared as given, not canonicalized
check_dst_Literal(f, dst) ==
    IF ~Canonicalize(f, dst).ok THEN "err" ELSE IF dst = Root THEN "exit" ELSE "ok"

\* check_dst: the canonicalized destination must not be "/"
check_dst(f, dst) ==
    LET r == Canonicalize(f, dst)
    IN  IF ~r.ok THEN "err" ELSE IF r.path = Root THEN "exit" ELSE "ok"

\* main, lines 20-34: the checks made before anything is read or written
MainChecks ==
    /\ pc = <<"main">>
    /\ pc' = IF IsFile(fs, args.source) \/ IsFile(fs, args.destination)
             THEN <<"failed">>
             ELSE IF ~args.force
             THEN LET c == check_dst(fs, args.destination)
                  IN  IF c = "exit" THEN <<"exit1">>
                      ELSE IF c = "err" THEN <<"failed">>
                      ELSE <<"confirm">>
             ELSE <<"confirm">>
    /\ UNCHANGED <<fs, copier, abs_source, abs_dest, walk, log, fs0, runs, snap,
                   args, config, sysroot_dir, now>>

\* main, lines 36-42: the configuration is read, described, and the user asked
MainConfirm ==
    /\ pc = <<"confirm">>
    /\ \E answer \in {"yes", "no", "err"} :
          pc' = IF answer = "yes" THEN <<"copy">>
                ELSE IF answer = "no" THEN <<"exit0">>
                ELSE <<"failed">>
    /\ UNCHANGED <<fs, copier, abs_source, abs_dest, walk, log, fs0, runs, snap,
                   args, config, sysroot_dir, now>>

\* with_exclude_path / with_include_path: the text of the joined path is
\* added to the filter list
with_path(filters, src, path) == Append(filters, Text(src \o path.comps))

\* the loops of copy over config.include and config.exclude
RECURSIVE PathFilters(_, _, _)
PathFilters(filters, src, paths) ==
    IF paths = << >> THEN filters
    ELSE PathFilters(with_path(filters, src, Head(paths)), src, Tail(paths))

AllAbsolute(paths) == \A i \in 1..Len(paths) : paths[i].abs

\* copy, lines 77-102: the copier is built and run
CopyStart ==
    /\ pc = <<"copy">>
    /\ IF AllAbsolute(config.include) /\ AllAbsolute(config.exclude)
       THEN /\ copier' = CopyBuilder(args.source, args.destination, FALSE, TRUE, FALSE,
                                     PathFilters(<< >>, args.source, config.exclude),
                                     PathFilters(<< >>, args.source, config.include))
            /\ pc' = <<"run", "cleanup">>
       ELSE /\ copier' = copier
            /\ pc' = <<"failed">>
    /\ UNCHANGED <<fs, abs_source, abs_dest, walk, log, fs0, runs, snap, args, config,
                   sysroot_dir, now>>

\* std::fs::remove_dir_all: unlinks a symlink, removes a directory tree,
\* fails on any other file
RemoveDirAll(f, p) ==
    IF f[p].kind = "symlink" THEN [ok |-> TRUE, fs |-> Remove(f, p)]
    ELSE IF f[p].kind = "dir" THEN [ok |-> TRUE, fs |-> RemoveTree(f, p)]
    ELSE [ok |-> FALSE, fs |-> f]

\* copy, lines 104-109: every excluded path that exists under dst is removed
RECURSIVE CleanUp(_, _, _)
CleanUp(f, dst, paths) ==
    IF paths = << >> THEN [ok |-> TRUE, fs |-> f]
    ELSE LET abs_path == dst \o Head(paths).comps
         IN  IF ~Head(paths).abs THEN [ok |-> FALSE, fs |-> f]
             ELSE IF PathExists(f, abs_path)
             THEN LET r == RemoveDirAll(f, abs_path)
                  IN  IF r.ok THEN CleanUp(r.fs, dst, Tail(paths)) ELSE r
             ELSE CleanUp(f, dst, Tail(paths))

CopyCleanup ==
    /\ pc = <<"cleanup">>
    /\ LET r == CleanUp(fs, args.destination, config.exclude)
       IN  /\ fs' = r.fs
           /\ pc' = IF r.ok THEN <<"links">> ELSE <<"failed">>
    /\ UNCHANGED <<copier, abs_source, abs_dest, walk, log, fs0, runs, snap, args,
                   config, sysroot_dir, now>>

\* std::fs::remove_file: fails on a directory
RemoveFile(f, p) ==
    IF Exists(f, p) /\ f[p].kind # "dir" THEN [ok |-> TRUE, fs |-> Remove(f, p)]
    ELSE [ok |-> FALSE, fs |-> f]

\* lines 69-70: the parent directories, then the link
PlaceLink(f, abs_link, target, t) ==
    IF CanCreateDirAll(f, Parent(abs_link))
    THEN MakeSymlink(CreateDirAll(f, Parent(abs_link), t), target, abs_link, t)
    ELSE [ok |-> FALSE, fs |-> f]

\* create_explicit_symlinks: one iteration of its loop, replace being the
\* user's answer should the link's place be taken
ExplicitLink(f, dst, link, replace, t) ==
    LET abs_link == dst \o link.link.comps
    IN  IF ~link.link.abs THEN [ok |-> TRUE, fs |-> f]
        ELSE IF Exists(f, abs_link)
        THEN IF replace
             THEN LET r == RemoveFile(f, abs_link)
                  IN  IF r.ok THEN PlaceLink(r.fs, abs_link, link.target, t) ELSE r
             ELSE [ok |-> TRUE, fs |-> f]
        ELSE PlaceLink(f, abs_link, link.target, t)

LinkStep ==
    /\ pc = <<"links">>
    /\ config.link # << >>
    /\ \E replace \in BOOLEAN :
          LET r == ExplicitLink(fs, args.destination, Head(config.link), replace, now)
          IN  /\ fs' = r.fs
              /\ pc' = IF r.ok THEN pc ELSE <<"failed">>
    /\ config' = [config EXCEPT !.link = Tail(@)]
    /\ UNCHANGED <<copier, abs_source, abs_dest, walk, log, fs0, runs, snap, args,
                   sysroot_dir, now>>

\* main, line 46: make_relative(&dst)
LinksReturn ==
    /\ pc = <<"links">>
    /\ config.link = << >>
    /\ pc' = <<"make_relative", "done">>
    /\ sysroot_dir' = args.destination
    /\ UNCHANGED <<fs, copier, abs_source, abs_dest, walk, log, fs0, runs, snap, args,
                   config, now>>

(***************************************************************************)
(* The library used on its own: run called MaxRuns times in succession on  *)
(* a source tree /s and a destination that is absent (/d), already         *)
(* populated (/d) or nested in the source (/s/d).                          *)
(***************************************************************************)
NoArgs == [source |-> Root, destination |-> Root, force |-> FALSE]
NoConfig == [include |-> << >>, exclude |-> << >>, link |-> << >>]

AbsTarget(comps) == [abs |-> TRUE, comps |-> comps]
RelTarget(comps) == [abs |-> FALSE, comps |-> comps]

\* the source tree: /s/b/l and /s/e/p are files, /s/k a symlink, /s/o a fifo
SourceTree(ltime, ktarget) ==
    (Root :> Dir(1)) @@ (<<"s">> :> Dir(1))
    @@ (<<"s", "b">> :> Dir(1)) @@ (<<"s", "b", "l">> :> File(<<1>>, ltime))
    @@ (<<"s", "e">> :> Dir(1)) @@ (<<"s", "e", "p">> :> File(<<1, 1>>, 1))
    @@ (<<"s", "k">> :> Symlink(ktarget, 1))
    @@ (<<"s", "o">> :> Fifo(1))

\* an earlier copy at /d: b/l with its own bytes, k with another target or absent
OldDest(ldata, withk) ==
    (<<"d">> :> Dir(2)) @@ (<<"d", "b">> :> Dir(2))
    @@ (<<"d", "b", "l">> :> File(ldata, 2))
    @@ (IF withk THEN <<"d", "k">> :> Symlink(RelTarget(<<"e", "p">>), 2)
        ELSE [p \in {} |-> Dir(2)])

FileData == {<<1>>, <<2>>, <<2, 2>>}
SourceTimes == {1, 3}
LinkTargets == {AbsTarget(<<"b", "l">>), RelTarget(<<"b", "l">>)}
ExcludeLists == {<< >>, << <<"e">> >>}
IncludeLists == {<< >>, << <<"b">> >>, << <<"e">> >>}

InitTrees ==
    {SourceTree(lt, kt) : lt \in SourceTimes, kt \in LinkTargets}

InitDests ==
    {[dst |-> <<"d">>, old |-> [p \in {} |-> Dir(2)]],
     [dst |-> <<"s", "d">>, old |-> [p \in {} |-> Dir(2)]]}
    \cup {[dst |-> <<"d">>, old |-> OldDest(d, k)] : d \in FileData, k \in BOOLEAN}

Init ==
    /\ \E t \in InitTrees, d \in InitDests :
          /\ fs = d.old @@ t
          /\ \E all \in BOOLEAN, newer \in BOOLEAN, differs \in BOOLEAN,
                excl \in ExcludeLists, incl \in IncludeLists :
                copier = CopyBuilder(<<"s">>, d.dst, all, newer, differs, excl, incl)
    /\ pc = <<"idle">>
    /\ abs_source = Root
    /\ abs_dest = Root
    /\ walk = << >>
    /\ log = NoLog
    /\ fs0 = fs
    /\ runs = 0
    /\ snap = fs
    /\ args = NoArgs
    /\ config = NoConfig
    /\ sysroot_dir = Root
    /\ now = 2

\* the caller invokes copier.run() once more
CallRun ==
    /\ pc = <<"idle">>
    /\ runs < MaxRuns
    /\ pc' = <<"run", "idle">>
    /\ UNCHANGED <<fs, copier, abs_source, abs_dest, walk, log, fs0, runs, snap,
                   args, config, sysroot_dir, now>>

Next == CallRun \/ RunStart \/ RunStep \/ RunReturn

Spec == Init /\ [][Next]_vars

(***************************************************************************)
(* make_relative on its own: a sysroot (/ or /r) holding a file l/f, a     *)
(* relative link u/j and one link k, at depth 1, 2 or 3, whose target      *)
(* ranges over the absolute and relative paths of up to MaxTarget          *)
(* components.                                                             *)
(***************************************************************************)
TargetNames == {"l", "f", "u", ".."}

CompSeqs(n) == UNION {[1..m -> TargetNames] : m \in 0..n}

RelTargets ==
    {AbsTarget(c) : c \in CompSeqs(MaxTarget)}
    \cup {RelTarget(c) : c \in CompSeqs(MaxTarget) \ {<< >>}}

RelRoots == {Root, <<"r">>}

LinkPlaces == {<<"k">>, <<"u", "k">>, <<"u", "v", "k">>}

SysrootTree(r, place, tg) ==
    (r \o place :> Symlink(tg, 1))
    @@ (r \o <<"u">> :> Dir(1)) @@ (r \o <<"u", "v">> :> Dir(1))
    @@ (r \o <<"u", "j">> :> Symlink(RelTarget(<<"..", "l", "f">>), 1))
    @@ (r \o <<"l">> :> Dir(1)) @@ (r \o <<"l", "f">> :> File(<<1>>, 1))
    @@ (r :> Dir(1)) @@ (Root :> Dir(1))

InitRel ==
    /\ \E r \in RelRoots, place \in LinkPlaces, tg \in RelTargets :
          /\ fs = SysrootTree(r, place, tg)
          /\ sysroot_dir = r
    /\ pc = <<"make_relative", "done">>
    /\ copier = CopyBuilder(Root, Root, FALSE, FALSE, FALSE, << >>, << >>)
    /\ abs_source = Root
    /\ abs_dest = Root
    /\ walk = << >>
    /\ log = NoLog
    /\ fs0 = fs
    /\ runs = 0
    /\ snap = fs
    /\ args = NoArgs
    /\ config = NoConfig
    /\ now = 2

NextRel == RelStart \/ RelStep \/ RelReturn

SpecRel == InitRel /\ [][NextRel]_vars

(***************************************************************************)
(* The program: main on the source /s, with a destination that is "/",     *)
(* a symlink /r to "/", an existing /d (empty or holding an earlier copy)  *)
(* or an absent /d.                                                        *)
(***************************************************************************)
ConfigExcludes ==
    {<< >>, <<AbsTarget(<<"e">>)>>, <<AbsTarget(<<"e", "p">>)>>, <<RelTarget(<<"e">>)>>}

ConfigIncludes == {<< >>, <<AbsTarget(<<"b">>)>>}

ConfigLinks ==
    {<< >>, <<[link |-> AbsTarget(<<"k">>), target |-> AbsTarget(<<"e", "p">>)]>>,
     <<[link |-> AbsTarget(<<"m", "n">>), target |-> AbsTarget(<<"b", "l">>)]>>}

\* destination, what is there beforehand, and the force flags tried with it
MainDests ==
    {[dst |-> Root, old |-> [p \in {} |-> Dir(2)], force |-> BOOLEAN],
     [dst |-> <<"r">>, old |-> (<<"r">> :> Symlink(AbsTarget(<< >>), 1)), force |-> {FALSE}],
     [dst |-> <<"d">>, old |-> (<<"d">> :> Dir(2)), force |-> BOOLEAN],
     [dst |-> <<"d">>, old |-> OldDest(<<2>>, TRUE), force |-> BOOLEAN],
     [dst |-> <<"d">>, old |-> [p \in {} |-> Dir(2)], force |-> BOOLEAN]}

InitMain ==
    /\ \E d \in MainDests, kt \in LinkTargets :
          /\ fs = d.old @@ SourceTree(3, kt)
          /\ \E force \in d.force :
                args = [source |-> <<"s">>, destination |-> d.dst, force |-> force]
    /\ \E excl \in ConfigExcludes, incl \in ConfigIncludes, link \in ConfigLinks :
          config = [include |-> incl, exclude |-> excl, link |-> link]
    /\ pc = <<"main">>
    /\ copier = CopyBuilder(Root, Root, FALSE, FALSE, FALSE, << >>, << >>)
    /\ abs_source = Root
    /\ abs_dest = Root
    /\ walk = << >>
    /\ log = NoLog
    /\ fs0 = fs
    /\ runs = 0
    /\ snap = fs
    /\ sysroot_dir = Root
    /\ now = 4

NextMain ==
    \/ MainChecks \/ MainConfirm \/ CopyStart
    \/ RunStart \/ RunStep \/ RunReturn
    \/ CopyCleanup \/ LinkStep \/ LinksReturn
    \/ RelStart \/ RelStep \/ RelReturn

SpecMain == InitMain /\ [][NextMain]_vars

(***************************************************************************)
(* Properties of CopyBuilder::run (checked under Spec).                    *)
(***************************************************************************)
\* where run puts the source entry e
DestOf(e) == abs_dest \o StripPrefix(e, abs_source)

\* the entries the loop body has been run on
Visited == {e \in DOMAIN log : log[e] # "filtered"}

VisitedFiles == {e \in Visited : fs0[e].kind # "dir"}

VisitedDirs == {e \in Visited : fs0[e].kind = "dir"}

HasOneOf(e, filters) == \E i \in 1..Len(filters) : Contains(Text(e), filters[i])

PassesFilters(e) ==
    /\ ~HasOneOf(e, copier.exclude_filters)
    /\ copier.include_filters = << >> \/ HasOneOf(e, copier.include_filters)

\* the body reached the copy of e
CopyDecided(e) == log[e] \in {"cp", "cp_lnk", "unhandled", "cp_err", "cp_lnk_err"}

Untouched(p) == (Exists(fs, p) <=> Exists(fs0, p)) /\ (Exists(fs, p) => fs[p] = fs0[p])

\* C1 as claimed: with overwrite_if_newer and overwrite_if_size_differs both
\* on and overwrite_all off, an entry whose destination exists is copied
\* iff the source is newer OR the sizes differ.
C1_Original ==
    \A e \in VisitedFiles :
        ( /\ ~copier.overwrite_all
          /\ copier.overwrite_if_newer /\ copier.overwrite_if_size_differs
          /\ PassesFilters(e)
          /\ Exists(fs0, DestOf(e)) )
        => ( CopyDecided(e) <=>
                \/ fs0[e].mtime > fs0[DestOf(e)].mtime
                \/ Size(fs0[e]) # Size(fs0[DestOf(e)]) )

\* C2 as claimed: with overwrite_all, every entry that passes the filters is
\* copied, whatever is at the destination and whatever the other two flags.
C2_Original ==
    \A e \in VisitedFiles :
        (copier.overwrite_all /\ PassesFilters(e)) => CopyDecided(e)

\* C3: exclude takes precedence.  An entry whose path text contains an
\* exclude filter is never copied: its destination is left as it was,
\* whatever the include filters and the overwrite flags; with the exclude
\* filter "e" alone a completed run leaves b/l but no e/p at the destination.
C3_ExcludeWins ==
    /\ \A e \in VisitedFiles :
          HasOneOf(e, copier.exclude_filters) =>
              ~CopyDecided(e) /\ Untouched(DestOf(e))
    /\ ( /\ pc = <<"idle">> /\ runs >= 1
         /\ copier.exclude_filters = << <<"e">> >> /\ copier.include_filters = << >> )
       => /\ Exists(fs, copier.destination \o <<"b", "l">>)
          /\ Exists(fs0, copier.destination \o <<"e", "p">>)
                \/ ~Exists(fs, copier.destination \o <<"e", "p">>)

C3_Witness ==
    /\ pc = <<"idle">> /\ runs = 1
    /\ copier.overwrite_all
    /\ copier.exclude_filters = << <<"e">> >>
    /\ copier.include_filters = << <<"e">> >>
    /\ <<"s", "e", "p">> \in DOMAIN log
    /\ log[<<"s", "e", "p">>] = "excluded"
    /\ ~Exists(fs, <<"d", "e", "p">>)

\* what a tree holds, modification times aside
SameTree(f, g) ==
    /\ DOMAIN f = DOMAIN g
    /\ \A p \in DOMAIN f :
          f[p].kind = g[p].kind /\ f[p].data = g[p].data /\ f[p].target = g[p].target

\* C6, first half: a run that follows a successful run leaves the tree as
\* the first left it, whenever it returns
C6_SameTree == runs >= 2 => SameTree(fs, snap)

\* C6 as claimed: the second run also completes successfully, for every
\* source tree and every combination of flags.
C6_Original == C6_SameTree /\ ~(runs >= 1 /\ pc = <<"failed">>)

\* C9 as claimed: whenever run decides to copy a symlink, the destination
\* entry is afterwards a symlink with the source's literal target, whether
\* or not something was there before.
C9_Original ==
    \A e \in VisitedFiles :
        (fs0[e].kind = "symlink" /\ CopyDecided(e)) =>
            /\ Exists(fs, DestOf(e))
            /\ fs[DestOf(e)].kind = "symlink"
            /\ fs[DestOf(e)].target = fs0[e].target

\* the entries the iterator still holds
Pending == UNION {walk[i] : i \in 1..Len(walk)}

Below(d, p) == IsPrefix(d, p) /\ p # d

\* the source tree without what lies below the destination
Outside(f) == {p \in DOMAIN f : IsPrefix(abs_source, p) /\ ~Below(abs_dest, p)}

\* C8: with the destination inside the source, the loop body never runs on
\* the destination, the walk never holds or hands out an entry below it,
\* and never one it has handed out before; the source outside the
\* destination stays as it was, so the walk ends, and then it has been
\* through exactly that part; nothing of the destination is copied into it.
C8_SkipsDestination ==
    (Head(pc) = "run_walk" /\ IsPrefix(abs_source, abs_dest)) =>
        /\ abs_dest \notin Visited
        /\ DOMAIN log \cup Pending \subseteq Outside(fs)
        /\ Outside(fs) \ {abs_dest} = Outside(fs0) \ {abs_dest}
        /\ Pending \cap DOMAIN log = {}
        /\ ~Exists(fs, DestOf(abs_dest))
        /\ walk = << >> => DOMAIN log = Outside(fs)

C8_Witness ==
    /\ Head(pc) = "run_walk" /\ walk = << >>
    /\ abs_source = <<"s">> /\ abs_dest = <<"s", "d">>
    /\ log[<<"s", "d">>] = "filtered"
    /\ Exists(fs, <<"s", "d", "b", "l">>)
    /\ runs = 1

(***************************************************************************)
(* Properties of main (checked under SpecMain).                            *)
(***************************************************************************)
ResolvesToRoot(p) ==
    LET r == Canonicalize(fs, p) IN r.ok /\ r.path = Root

\* C7: with a destination that resolves to "/" and no force flag the program
\* never gets past its checks: it stops (exit 1) with the file system as it
\* found it; only force lets it through.
C7_RootRefused ==
    (ResolvesToRoot(args.destination) /\ ~args.force) =>
        /\ pc \in {<<"main">>, <<"exit1">>}
        /\ fs = fs0 /\ runs = 0

C7_Witness ==
    /\ pc = <<"exit1">>
    /\ args.destination = <<"r">> /\ ~args.force
    /\ config.link # << >>

\* the destination of e lies at or below a path config.exclude names
NamedByExclude(e) ==
    \E i \in 1..Len(config.exclude) :
        IsPrefix(args.destination \o config.exclude[i].comps, DestOf(e))

\* C10: filters govern files only.  Every directory the walk visits exists
\* at the destination from then on, excluded or not included as its path may
\* be, and the cleanup in copy removes of them only those config.exclude
\* names (with what lies below).
DirsExist == \A e \in VisitedDirs : Exists(fs, DestOf(e)) /\ fs[DestOf(e)].kind = "dir"

DirsLeft == \A e \in VisitedDirs : Exists(fs, DestOf(e)) <=> ~NamedByExclude(e)

C10_DirsCreated ==
    [][ /\ Head(pc') = "run_walk" => DirsExist'
        /\ (pc = <<"cleanup">> /\ pc' = <<"links">>) => DirsLeft' ]_vars

C10_Witness ==
    /\ pc = <<"links">>
    /\ config.exclude = <<AbsTarget(<<"e", "p">>)>>
    /\ config.include = <<AbsTarget(<<"b">>)>>
    /\ args.destination = <<"d">>
    /\ log[<<"s", "e">>] = "mkdir"
    /\ Exists(fs, <<"d", "e">>) /\ fs[<<"d", "e">>].kind = "dir"
    /\ ~Exists(fs, <<"d", "e", "p">>)

(***************************************************************************)
(* Properties of make_relative (checked under SpecRel).                    *)
(***************************************************************************)
\* a path read textually: ".." cancels the component before it
RECURSIVE Lexical(_, _)
Lexical(rest, acc) ==
    IF rest = << >> THEN acc
    ELSE Lexical(Tail(rest), IF Head(rest) = ".." THEN Parent(acc) ELSE Append(acc, Head(rest)))

Denotes(comps) == Lexical(comps, << >>)

Under(root, p) == IsPrefix(root, p)

\* C4: round trip.  Every link make_relative rewrote had an absolute target
\* T and now has a relative one which, read from the link's directory,
\* denotes sysroot_dir joined with T; usr/lib/libfoo.so -> /lib/libfoo.so.1
\* (here u/v/k -> /l/f) becomes ../../lib/libfoo.so.1.  Once make_relative
\* has returned, every link under the root that was absolute is rewritten.
C4_RoundTrip ==
    /\ \A l \in DOMAIN log :
          log[l] = "rewritten" =>
              /\ fs0[l].kind = "symlink" /\ fs0[l].target.abs
              /\ fs[l].kind = "symlink" /\ ~fs[l].target.abs
              /\ Denotes(Parent(l) \o fs[l].target.comps)
                    = Denotes(sysroot_dir \o fs0[l].target.comps)
              /\ (l = sysroot_dir \o <<"u", "v", "k">> /\ fs0[l].target.comps = <<"l", "f">>)
                    => fs[l].target.comps = <<"..", "..", "l", "f">>
    /\ pc = <<"done">> =>
          \A l \in DOMAIN fs0 :
              (Under(sysroot_dir, l) /\ fs0[l].kind = "symlink" /\ fs0[l].target.abs)
                  => l \in DOMAIN log /\ log[l] = "rewritten"

C4_Witness ==
    /\ pc = <<"done">>
    /\ sysroot_dir = <<"r">>
    /\ <<"r", "u", "v", "k">> \in DOMAIN log
    /\ log[<<"r", "u", "v", "k">>] = "rewritten"
    /\ fs0[<<"r", "u", "v", "k">>].target = AbsTarget(<<"l", "f">>)
    /\ fs[<<"r", "u", "v", "k">>].target = RelTarget(<<"..", "..", "l", "f">>)

\* C5, its postcondition: once make_relative has returned Ok, every symlink
\* under the root is relative, those that were relative and every other
\* entry are as they were.
C5_Post ==
    pc = <<"done">> =>
        /\ DOMAIN fs = DOMAIN fs0
        /\ \A p \in DOMAIN fs0 :
              IF fs0[p].kind = "symlink" /\ fs0[p].target.abs /\ Under(sysroot_dir, p)
              THEN fs[p].kind = "symlink" /\ ~fs[p].target.abs
              ELSE fs[p] = fs0[p]

\* C5 as claimed: the postcondition, and make_relative never aborts
\* abnormally, whatever the absolute target.
C5_Original == C5_Post /\ pc # <<"panic">>

====
